---- MODULE Spec2Model ----
(***************************************************************************)
(* Volume resolution and mount assembly of daemon/volumes.go.              *)
(*                                                                         *)
(* A Go string is a sequence of one-character strings: "/a:ro" is          *)
(* <<"/", "a", ":", "r", "o">> and the empty string is <<>>.  A Go map is  *)
(* a function whose DOMAIN is the key set; ranging over a map is a choice  *)
(* of one order of its keys.  An error is a string, "nil" for no error.    *)
(***************************************************************************)
EXTENDS Integers, Sequences, FiniteSets, TLC

VARIABLES
    container,   \* the container being prepared: Volumes, VolumesRW, hostConfig, Config, paths, Mounts
    fs,          \* the filesystem: host paths and the nodes below container.basefs
    allocated,   \* number of directories the volumes driver has created
    last,        \* the last call: its name, argument, returned error and collaborator calls
    copies,      \* per cleaned VolPath, how often archive.CopyWithTar was invoked
    steps,       \* number of calls made so far
    fields,      \* colon-separated fields of the spec string handed to the parsers
    bindResult,  \* what parseBindVolumeSpec returned for it
    fromResult   \* what parseVolumesFromSpec returned for it

vars == <<container, fs, allocated, last, copies, steps, fields, bindResult, fromResult>>

(***************************************************************************)
(* Bounds.                                                                 *)
(***************************************************************************)
MaxFields == 4
MaxSteps == 2

(***************************************************************************)
(* Strings.                                                                *)
(***************************************************************************)
ByteOf(c) ==
    CASE c = "." -> 46
      [] c = "/" -> 47
      [] c = "1" -> 49
      [] c = "2" -> 50
      [] c = "3" -> 51
      [] c = "4" -> 52
      [] c = "5" -> 53
      [] c = "6" -> 54
      [] c = ":" -> 58
      [] c = "a" -> 97
      [] c = "b" -> 98
      [] c = "f" -> 102
      [] c = "h" -> 104
      [] c = "l" -> 108
      [] c = "n" -> 110
      [] c = "o" -> 111
      [] c = "q" -> 113
      [] c = "r" -> 114
      [] c = "v" -> 118
      [] c = "w" -> 119
      [] c = "x" -> 120
      [] c = "y" -> 121
      [] c = "z" -> 122

\* s < t in Go: byte-wise lexicographic order
StrLess(s, t) ==
    \E i \in 1..(Len(t)) :
        /\ \A j \in 1..(i - 1) : j <= Len(s) /\ s[j] = t[j]
        /\ \/ i > Len(s)
           \/ ByteOf(s[i]) < ByteOf(t[i])

HasSep(s, sep) == \E i \in 1..Len(s) : s[i] = sep

FirstSep(s, sep) == CHOOSE i \in 1..Len(s) : s[i] = sep /\ \A j \in 1..(i - 1) : s[j] # sep

\* strings.SplitN(s, sep, n) for n > 0 and a one-byte separator
RECURSIVE SplitN(_, _, _)
SplitN(s, sep, n) ==
    IF n > 1 /\ HasSep(s, sep)
    THEN LET i == FirstSep(s, sep)
         IN  <<SubSeq(s, 1, i - 1)>> \o SplitN(SubSeq(s, i + 1, Len(s)), sep, n - 1)
    ELSE <<s>>

\* strings.Split(s, sep) for a one-byte separator
Split(s, sep) == SplitN(s, sep, Len(s) + 1)

RECURSIVE Join(_, _)
Join(parts, sep) ==
    IF Len(parts) = 0 THEN <<>>
    ELSE IF Len(parts) = 1 THEN parts[1]
    ELSE parts[1] \o <<sep>> \o Join(Tail(parts), sep)

\* filepath.IsAbs on unix
IsAbs(path) == Len(path) > 0 /\ path[1] = "/"

\* the element stack filepath.Clean builds: "" and "." are dropped, ".." pops
RECURSIVE CleanElems(_, _, _)
CleanElems(elems, rooted, out) ==
    IF Len(elems) = 0 THEN out
    ELSE LET e == Head(elems)
             rest == Tail(elems)
         IN  IF e = <<>> \/ e = <<".">>
             THEN CleanElems(rest, rooted, out)
             ELSE IF e = <<".", ".">>
             THEN IF Len(out) > 0 /\ out[Len(out)] # <<".", ".">>
                  THEN CleanElems(rest, rooted, SubSeq(out, 1, Len(out) - 1))
                  ELSE IF rooted
                  THEN CleanElems(rest, rooted, out)
                  ELSE CleanElems(rest, rooted, Append(out, e))
             ELSE CleanElems(rest, rooted, Append(out, e))

\* the path filepath.Clean returns for the cleaned elements
CleanResult(rooted, body) ==
    IF rooted THEN <<"/">> \o body
    ELSE IF body = <<>> THEN <<".">> ELSE body

\* filepath.Clean on unix
Clean(path) ==
    IF path = <<>> THEN <<".">>
    ELSE CleanResult(path[1] = "/", Join(CleanElems(Split(path, "/"), path[1] = "/", <<>>), "/"))

\* SortStrings putting longer strings first
RECURSIVE SortLongestFirst(_)
SortLongestFirst(S) ==
    IF S = {} THEN <<>>
    ELSE LET m == CHOOSE x \in S : \A y \in S \ {x} :
                      Len(x) > Len(y) \/ (Len(x) = Len(y) /\ StrLess(x, y))
         IN  <<m>> \o SortLongestFirst(S \ {m})

\* sort.Strings over the elements of a set
RECURSIVE SortStrings(_)
SortStrings(S) ==
    IF S = {} THEN <<>>
    ELSE LET m == CHOOSE x \in S : \A y \in S \ {x} : StrLess(x, y)
         IN  <<m>> \o SortStrings(S \ {m})

\* every order in which a range over a map with key set S can visit the keys
RECURSIVE Orders(_)
Orders(S) ==
    IF S = {} THEN {<<>>}
    ELSE UNION {{<<k>> \o o : o \in Orders(S \ {k})} : k \in S}

(***************************************************************************)
(* Spec parser.                                                            *)
(***************************************************************************)
ModeRW == <<"r", "w">>
ModeRO == <<"r", "o">>

validVolumeMode(mode) == mode \in {ModeRW, ModeRO}

ZeroVolume == [HostPath |-> <<>>, VolPath |-> <<>>, isReadWrite |-> FALSE, isBindMount |-> FALSE]

\* parseBindFields with the mode test of case 3 inverted
parseBindFieldsInverted(spec, arr) ==
    CASE Len(arr) = 1 ->
           [ZeroVolume EXCEPT !.VolPath = spec, !.isReadWrite = TRUE]
      [] Len(arr) = 2 ->
           [ZeroVolume EXCEPT !.HostPath = arr[1], !.VolPath = arr[2], !.isReadWrite = TRUE]
      [] Len(arr) = 3 ->
           [ZeroVolume EXCEPT !.HostPath = arr[1], !.VolPath = arr[2],
                              !.isReadWrite = validVolumeMode(arr[3]) /\ arr[3] # ModeRW]
      [] OTHER -> ZeroVolume

\* lines 165-179: the Volume the switch on len(arr) fills in
parseBindFields(spec, arr) ==
    CASE Len(arr) = 1 ->
           [ZeroVolume EXCEPT !.VolPath = spec, !.isReadWrite = TRUE]
      [] Len(arr) = 2 ->
           [ZeroVolume EXCEPT !.HostPath = arr[1], !.VolPath = arr[2], !.isReadWrite = TRUE]
      [] Len(arr) = 3 ->
           [ZeroVolume EXCEPT !.HostPath = arr[1], !.VolPath = arr[2],
                              !.isReadWrite = validVolumeMode(arr[3]) /\ arr[3] = ModeRW]
      [] OTHER -> ZeroVolume

\* lines 177-185: the default case and the absolute-path check
parseBindChecked(vol, n) ==
    IF n > 3 THEN [vol |-> vol, err |-> "Invalid volume specification"]
    ELSE IF ~IsAbs(vol.HostPath) THEN [vol |-> vol, err |-> "volume paths must be absolute"]
    ELSE [vol |-> vol, err |-> "nil"]

parseBindArr(spec, arr) == parseBindChecked(parseBindFields(spec, arr), Len(arr))

parseBindVolumeSpec(spec) == parseBindArr(spec, Split(spec, ":"))

(***************************************************************************)
(* The filesystem.  fs maps each existing path to its node; a symbolic     *)
(* link is a node of kind "link" with a target.  A directory lists as      *)
(* non-empty when it holds files of its own or a modelled node below it.   *)
(***************************************************************************)
basefs == <<"/", "r">>

DirNode(files, owner, mode) ==
    [kind |-> "dir", files |-> files, owner |-> owner, mode |-> mode, target |-> <<>>]

FileNode(owner, mode) ==
    [kind |-> "file", files |-> FALSE, owner |-> owner, mode |-> mode, target |-> <<>>]

LinkNode(target) ==
    [kind |-> "link", files |-> FALSE, owner |-> "root", mode |-> "0777", target |-> target]

\* p is a proper ancestor directory of q
IsAncestor(p, q) ==
    /\ Len(p) < Len(q)
    /\ SubSeq(q, 1, Len(p)) = p
    /\ q[Len(p) + 1] = "/"

\* the path a symbolic link chain ends at (links of the model never loop)
RECURSIVE Resolve(_, _)
Resolve(f, path) ==
    IF path \in DOMAIN f /\ f[path].kind = "link" THEN Resolve(f, f[path].target) ELSE path

\* os.Stat on a path whose links are resolved
StatReal(f, real) ==
    IF \E a \in DOMAIN f : IsAncestor(a, real) /\ f[a].kind = "file" THEN "ENOTDIR"
    ELSE IF real \in DOMAIN f THEN "nil"
    ELSE "ENOENT"

\* os.Stat: "nil", "ENOENT", or "ENOTDIR" when a parent is no directory
StatErr(f, path) == StatReal(f, Resolve(f, path))

StatNode(f, path) == f[Resolve(f, path)]

\* filepath.EvalSymlinks: the cleaned real path, or an error when the path is missing
EvalSymlinks(f, path) ==
    IF path = <<>> THEN [path |-> Clean(path), err |-> "nil"]
    ELSE IF StatErr(f, path) # "nil" THEN [path |-> <<>>, err |-> "lstat: no such file or directory"]
    ELSE [path |-> Clean(Resolve(f, path)), err |-> "nil"]

\* ioutil.ReadDir on a path whose links are resolved
ReadDirReal(f, real) ==
    IF StatReal(f, real) # "nil" THEN [nonEmpty |-> FALSE, err |-> "open: no such file or directory"]
    ELSE IF f[real].kind # "dir" THEN [nonEmpty |-> FALSE, err |-> "readdirent: not a directory"]
    ELSE [nonEmpty |-> f[real].files \/ \E q \in DOMAIN f : IsAncestor(real, q), err |-> "nil"]

\* ioutil.ReadDir: whether the directory lists any entry
ReadDir(f, path) == ReadDirReal(f, Resolve(f, path))

\* index of the last separator of a path
LastSep(path) == CHOOSE i \in 1..Len(path) : path[i] = "/" /\ \A j \in (i + 1)..Len(path) : path[j] # "/"

\* filepath.Dir of a cleaned absolute path
Dir(path) == IF LastSep(path) = 1 THEN <<"/">> ELSE SubSeq(path, 1, LastSep(path) - 1)

\* the directories os.MkdirAll has to create below the container root
MissingDirs(f, path) ==
    {a \in {SubSeq(path, 1, n) : n \in 1..Len(path)} :
        /\ a = path \/ IsAncestor(a, path)
        /\ IsAncestor(basefs, a)
        /\ a \notin DOMAIN f}

\* os.MkdirAll(path, 0755)
MkdirAll(f, path) ==
    [a \in DOMAIN f \cup MissingDirs(f, path) |->
        IF a \in DOMAIN f THEN f[a] ELSE DirNode(FALSE, "root", "0755")]

(***************************************************************************)
(* A call in progress is a "world": the container's two maps, the          *)
(* filesystem, the driver's counter, the collaborator calls made so far    *)
(* and the error the call is returning ("nil" while it runs).              *)
(***************************************************************************)
MaxAlloc == 2

Call(name, src, dst) == [call |-> name, src |-> src, dst |-> dst, err |-> "nil"]

\* the entry closing a call: what it was about and the error it returned
Return(name, what, e) == [call |-> name, src |-> what, dst |-> <<>>, err |-> e]

Fail(w, e) == [w EXCEPT !.err = e]

Log(w, c) == [w EXCEPT !.calls = Append(@, c)]

NoFault == "none"

\* the external call that fails during the operation, if any
Faults ==
    {NoFault, "Get", "FollowSymlinkInScope", "MkdirAll", "OpenFile", "CopyWithTar", "Chown", "Chmod"}

\* the map m with m[k] = x
MapPut(m, k, x) == [q \in DOMAIN m \cup {k} |-> IF q = k THEN x ELSE m[q]]

\* host path of the n-th directory the volumes driver creates
VolDir(n) == <<"/", "v", "/">> \o <<(<<"1", "2", "3", "4", "5", "6", "7", "8", "9">>)[n]>>

\* lines 226-231: volumesDriver.Get on the volume just created
createVolumeGet(w, dir, fault) ==
    IF fault = "Get"
    THEN [w |-> Log(w, Call("Get", dir, <<>>)), hostPath |-> <<>>,
          err |-> "Driver failed to get volume rootfs"]
    ELSE [w |-> Log(w, Call("Get", dir, dir)), hostPath |-> dir, err |-> "nil"]

\* daemon.volumes.Create, which gives a fresh empty directory or fails once the
\* driver has no room left, then Driver().Get
createVolumeHostPath(w, fault) ==
    IF w.allocated >= MaxAlloc
    THEN [w |-> Log(w, Call("Create", <<>>, <<>>)), hostPath |-> <<>>,
          err |-> "volumes.Create failed"]
    ELSE createVolumeGet([Log(w, Call("Create", <<>>, VolDir(w.allocated + 1))) EXCEPT
                             !.fs = MapPut(@, VolDir(w.allocated + 1),
                                           DirNode(FALSE, "root", "0700")),
                             !.allocated = @ + 1],
                         VolDir(w.allocated + 1), fault)

\* line 341: os.Chmod(destination, stat.Mode)
copyOwnershipChmod(w, stat, dst, fault) ==
    IF fault = "Chmod" THEN Fail(Log(w, Call("Chmod", <<>>, dst)), "chmod failed")
    ELSE [Log(w, Call("Chmod", <<>>, dst)) EXCEPT !.fs[dst].mode = stat.mode]

\* line 337: os.Chown(destination, stat.Uid, stat.Gid)
copyOwnershipChown(w, stat, dst, fault) ==
    IF fault = "Chown" \/ StatReal(w.fs, dst) # "nil"
    THEN Fail(Log(w, Call("Chown", <<>>, dst)), "chown failed")
    ELSE copyOwnershipChmod([Log(w, Call("Chown", <<>>, dst)) EXCEPT !.fs[dst].owner = stat.owner],
                            stat, dst, fault)

copyOwnership(w, source, destination, fault) ==
    IF StatErr(w.fs, source) # "nil" THEN Fail(w, "stat failed")
    ELSE copyOwnershipChown(w, StatNode(w.fs, source), Resolve(w.fs, destination), fault)

\* archive.CopyWithTar(source, destination): destination receives source's entries
CopyWithTar(w, source, destination, fault) ==
    IF fault = "CopyWithTar"
    THEN Fail(Log(w, Call("CopyWithTar", source, destination)), "copy failed")
    ELSE [Log(w, Call("CopyWithTar", source, destination)) EXCEPT
             !.fs[Resolve(w.fs, destination)].files = TRUE]

\* line 325, reached only when the copy did not fail
copyExistingCopied(w, source, destination, fault) ==
    IF w.err # "nil" THEN w ELSE copyOwnership(w, source, destination, fault)

\* copyExistingListed propagating ownership only after a copy
copyExistingListedCopyOnly(w, source, destination, volList, srcList, fault) ==
    IF volList.err # "nil" THEN Fail(w, volList.err)
    ELSE IF volList.nonEmpty /\ srcList.err # "nil" THEN Fail(w, srcList.err)
    ELSE IF volList.nonEmpty /\ ~srcList.nonEmpty
    THEN copyExistingCopied(CopyWithTar(w, source, destination, fault), source, destination, fault)
    ELSE w

\* lines 307-325, with both directory listings at hand
copyExistingListed(w, source, destination, volList, srcList, fault) ==
    IF volList.err # "nil" THEN Fail(w, volList.err)
    ELSE IF volList.nonEmpty /\ srcList.err # "nil" THEN Fail(w, srcList.err)
    ELSE IF volList.nonEmpty /\ ~srcList.nonEmpty
    THEN copyExistingCopied(CopyWithTar(w, source, destination, fault), source, destination, fault)
    ELSE copyOwnership(w, source, destination, fault)

copyExistingContents(w, source, destination, fault) ==
    copyExistingListed(w, source, destination,
                       ReadDir(w.fs, source), ReadDir(w.fs, destination), fault)

\* lines 292-302: the parent directories, then the empty file
createFile(w, destination, fault) ==
    IF fault = "MkdirAll"
    THEN Fail(Log(w, Call("MkdirAll", <<>>, Dir(destination))), "mkdir failed")
    ELSE IF fault = "OpenFile"
    THEN Fail(Log(Log([w EXCEPT !.fs = MkdirAll(@, Dir(destination))],
                      Call("MkdirAll", <<>>, Dir(destination))),
                  Call("OpenFile", <<>>, destination)),
              "open failed")
    ELSE Log(Log([w EXCEPT !.fs = MapPut(MkdirAll(@, Dir(destination)), destination,
                                         FileNode("root", "0755"))],
                 Call("MkdirAll", <<>>, Dir(destination))),
             Call("OpenFile", <<>>, destination))

\* lines 288-290: the mount-point of a directory
createDir(w, destination, fault) ==
    IF fault = "MkdirAll"
    THEN Fail(Log(w, Call("MkdirAll", <<>>, destination)), "mkdir failed")
    ELSE [Log(w, Call("MkdirAll", <<>>, destination)) EXCEPT !.fs = MkdirAll(@, destination)]

createIfNotExists(w, destination, isDir, fault) ==
    IF StatErr(w.fs, destination) # "ENOENT" THEN w
    ELSE IF isDir THEN createDir(w, destination, fault)
    ELSE createFile(w, destination, fault)

\* Volume.isDir
isDir(w, v) ==
    IF StatErr(w.fs, v.HostPath) # "nil" THEN [dir |-> FALSE, err |-> "stat failed"]
    ELSE [dir |-> StatNode(w.fs, v.HostPath).kind = "dir", err |-> "nil"]

\* filepath.Join(container.basefs, VolPath)
JoinBase(VolPath) == Clean(basefs \o <<"/">> \o VolPath)

\* initializeSeed handing the two paths to copyExistingContents the other way round
initializeSeedSwapped(w, v, hostPath, fullVolPath, fault) ==
    IF w.err # "nil" THEN w
    ELSE IF v.isReadWrite /\ ~v.isBindMount
    THEN copyExistingContents(w, hostPath, fullVolPath, fault)
    ELSE w

\* initializeSeed seeding bind-mounts too
initializeSeedBinds(w, v, hostPath, fullVolPath, fault) ==
    IF w.err # "nil" THEN w
    ELSE IF v.isReadWrite
    THEN copyExistingContents(w, fullVolPath, hostPath, fault)
    ELSE w

\* lines 276-280: seeding, unless the volume is mounted from the host or read-only
initializeSeed(w, v, hostPath, fullVolPath, fault) ==
    IF w.err # "nil" THEN w
    ELSE IF v.isReadWrite /\ ~v.isBindMount
    THEN copyExistingContents(w, fullVolPath, hostPath, fault)
    ELSE w

\* lines 268-274: creating the mount-point
initializeMountPoint(w, v, hostPath, fullVolPath, volIsDir, fault) ==
    IF volIsDir.err # "nil" THEN Fail(w, volIsDir.err)
    ELSE initializeSeed(createIfNotExists(w, fullVolPath, volIsDir.dir, fault),
                        v, hostPath, fullVolPath, fault)

\* lines 265-266: recording the volume in the container's maps
initializeRecord(w, v, hostPath) ==
    [w EXCEPT !.Volumes = MapPut(@, v.VolPath, hostPath),
              !.VolumesRW = MapPut(@, v.VolPath, v.isReadWrite)]

\* lines 260-280
initializeScoped(w, v, hostPath, fault) ==
    IF hostPath.err # "nil" THEN Fail(w, hostPath.err)
    ELSE IF fault = "FollowSymlinkInScope"
    THEN Fail(Log(w, Call("FollowSymlinkInScope", JoinBase(v.VolPath), <<>>)),
              "symlink escapes scope")
    ELSE initializeMountPoint(
             initializeRecord(Log(w, Call("FollowSymlinkInScope", JoinBase(v.VolPath), <<>>)),
                              v, hostPath.path),
             v, hostPath.path, JoinBase(v.VolPath), isDir(w, v), fault)

\* lines 251-280
initializeResolved(w, v, fault) ==
    initializeScoped(Log(w, Call("EvalSymlinks", v.HostPath, <<>>)), v,
                     EvalSymlinks(w.fs, v.HostPath), fault)

\* lines 244-249: the directory of a managed volume
initializeAllocated(host, v, fault) ==
    IF host.err # "nil" THEN Fail(host.w, host.err)
    ELSE initializeResolved(host.w, [v EXCEPT !.HostPath = host.hostPath], fault)

\* initializeBody without the check for an existing volume
initializeBodyAlways(w, v, fault) ==
    IF ~v.isBindMount /\ v.HostPath = <<>>
    THEN initializeAllocated(createVolumeHostPath(w, fault), v, fault)
    ELSE initializeResolved(w, v, fault)

\* initializeBody allocating a directory for every volume that is no bind-mount
initializeBodyAllocating(w, v, fault) ==
    IF v.VolPath \in DOMAIN w.Volumes THEN w
    ELSE IF ~v.isBindMount
    THEN initializeAllocated(createVolumeHostPath(w, fault), v, fault)
    ELSE initializeResolved(w, v, fault)

\* lines 238-280, for a volume whose VolPath is cleaned
initializeBody(w, v, fault) ==
    IF v.VolPath \in DOMAIN w.Volumes THEN w
    ELSE IF ~v.isBindMount /\ v.HostPath = <<>>
    THEN initializeAllocated(createVolumeHostPath(w, fault), v, fault)
    ELSE initializeResolved(w, v, fault)

\* number of CopyWithTar calls in a call list
RECURSIVE CountCopies(_)
CountCopies(calls) ==
    IF Len(calls) = 0 THEN 0
    ELSE (IF Head(calls).call = "CopyWithTar" THEN 1 ELSE 0) + CountCopies(Tail(calls))

\* the copies counted for a VolPath after n more of them
Counted(m, VolPath, n) ==
    IF n = 0 THEN m
    ELSE MapPut(m, VolPath, (IF VolPath \in DOMAIN m THEN m[VolPath] ELSE 0) + n)

\* the world initialize returns in: its result is logged and its copies are counted
initializeReturn(w, v, res) ==
    [Log(res, Return("return", v.VolPath, res.err)) EXCEPT
        !.copies = Counted(@, v.VolPath, CountCopies(res.calls) - CountCopies(w.calls))]

initializeCleaned(w, v, fault) ==
    initializeReturn(w, v, initializeBody(Log(w, Call("initialize", v.VolPath, v.HostPath)), v, fault))

\* initialize without the filepath.Clean of VolPath
initializeUncleaned(w, vol, fault) == initializeCleaned(w, vol, fault)

\* Volume.initialize
initialize(w, vol, fault) == initializeCleaned(w, [vol EXCEPT !.VolPath = Clean(@)], fault)

\* initializeEach going on after an error
RECURSIVE initializeEachAll(_, _, _)
initializeEachAll(w, vols, fault) ==
    IF Len(vols) = 0 THEN w
    ELSE initializeEachAll(initialize(w, Head(vols), fault), Tail(vols), fault)

\* initializing the volumes of a sequence in turn, up to the first error
RECURSIVE initializeEach(_, _, _)
initializeEach(w, vols, fault) ==
    IF Len(vols) = 0 \/ w.err # "nil" THEN w
    ELSE initializeEach(initialize(w, Head(vols), fault), Tail(vols), fault)

\* "for _, v := range volumes { v.initialize(container) }": one outcome per visiting order
rangeInitialize(w, volumes, fault) ==
    {initializeEach(w, [i \in 1..Len(o) |-> volumes[o[i]]], fault) : o \in Orders(DOMAIN volumes)}

(***************************************************************************)
(* The daemon's other containers, and Container.GetVolumes.                *)
(***************************************************************************)
PathA == <<"/", "a">>
PathASlash == <<"/", "a", "/">>
PathAB == <<"/", "a", "/", "b">>
PathAb == <<"/", "a", "b">>
HostH == <<"/", "h">>
HostF == <<"/", "f">>
HostL == <<"/", "l">>
HostN == <<"/", "n">>
VolX == <<"/", "v", "/", "x">>
VolY == <<"/", "v", "/", "y">>
NameX == <<"x">>
NameY == <<"y">>
NameQ == <<"q">>

EmptyMap == [q \in {} |-> <<>>]

Colon(parts) == Join(parts, ":")

\* the containers daemon.Get resolves, by name
daemon ==
    [n \in {NameX, NameY} |->
        IF n = NameX
        THEN [Volumes |-> MapPut(EmptyMap, PathA, VolX),
              VolumesRW |-> MapPut(EmptyMap, PathA, TRUE),
              hostConfig |-> [Binds |-> <<>>, VolumesFrom |-> <<>>]]
        ELSE [Volumes |-> MapPut(MapPut(EmptyMap, PathA, VolY), PathAb, HostH),
              VolumesRW |-> MapPut(MapPut(EmptyMap, PathA, FALSE), PathAb, TRUE),
              hostConfig |-> [Binds |-> <<Colon(<<HostH, PathAb>>)>>, VolumesFrom |-> <<>>]]]

RECURSIVE getBindMap(_, _)

\* one spec of hostConfig.Binds, parsed: marked as a bind-mount, keyed by its cleaned path
getBindMapParsed(binds, volumes, r) ==
    IF r.err # "nil" THEN [volumes |-> EmptyMap, err |-> r.err]
    ELSE getBindMap(Tail(binds),
                    MapPut(volumes, Clean(r.vol.VolPath), [r.vol EXCEPT !.isBindMount = TRUE]))

\* the container's bind-mounts
getBindMap(binds, volumes) ==
    IF Len(binds) = 0 THEN [volumes |-> volumes, err |-> "nil"]
    ELSE getBindMapParsed(binds, volumes, parseBindVolumeSpec(Head(binds)))

\* the bind-mounts, then every recorded volume no bind-mount covers
GetVolumesBound(c, b) ==
    IF b.err # "nil" THEN b
    ELSE [volumes |->
             [k \in DOMAIN b.volumes \cup DOMAIN c.Volumes |->
                 IF k \in DOMAIN b.volumes THEN b.volumes[k]
                 ELSE [HostPath |-> c.Volumes[k], VolPath |-> k,
                       isReadWrite |-> c.VolumesRW[k], isBindMount |-> FALSE]],
          err |-> "nil"]

\* Container.GetVolumes
GetVolumes(c) == GetVolumesBound(c, getBindMap(c.hostConfig.Binds, EmptyMap))

(***************************************************************************)
(* Volumes-from, the volume set builder and the mount list.                *)
(***************************************************************************)
\* lines 112-129: the source container's volumes, with the mode applied
parseVolumesFromMode(specParts, got) ==
    IF got.err # "nil" THEN [volumes |-> EmptyMap, err |-> got.err]
    ELSE IF Len(specParts) = 2
    THEN IF validVolumeMode(specParts[2])
         THEN [volumes |-> EmptyMap, err |-> "Invalid mode for volumes-from"]
         ELSE [volumes |-> [k \in DOMAIN got.volumes |->
                               [got.volumes[k] EXCEPT !.isReadWrite = specParts[2] # ModeRO]],
               err |-> "nil"]
    ELSE got

\* lines 107-129
parseVolumesFromParts(specParts) ==
    IF specParts[1] \notin DOMAIN daemon
    THEN [volumes |-> EmptyMap, err |-> "Container not found"]
    ELSE parseVolumesFromMode(specParts, GetVolumes(daemon[specParts[1]]))

parseVolumesFromSpec(spec) == parseVolumesFromParts(SplitN(spec, ":", 2))

\* lines 137-145: the volumes of one parsed spec, initialized in some order
applyVolumesFromParsed(w, spec, r, fault) ==
    IF r.err # "nil" THEN {Fail(Log(w, Return("parseVolumesFromSpec", spec, r.err)), r.err)}
    ELSE rangeInitialize(Log(w, Return("parseVolumesFromSpec", spec, r.err)), r.volumes, fault)

\* one spec of hostConfig.VolumesFrom, unless an earlier one failed
applyVolumesFromSpec(w, spec, fault) ==
    IF w.err # "nil" THEN {w}
    ELSE applyVolumesFromParsed(w, spec, parseVolumesFromSpec(spec), fault)

\* applyVolumesFrom over the specs still to apply
RECURSIVE applyVolumesFromSpecs(_, _, _)
applyVolumesFromSpecs(W, specs, fault) ==
    IF Len(specs) = 0 THEN W
    ELSE applyVolumesFromSpecs(UNION {applyVolumesFromSpec(w, Head(specs), fault) : w \in W},
                               Tail(specs), fault)

applyVolumesFrom(w, c, fault) == applyVolumesFromSpecs({w}, c.hostConfig.VolumesFrom, fault)

ManagedVolume(volPath) ==
    [HostPath |-> <<>>, VolPath |-> volPath, isReadWrite |-> TRUE, isBindMount |-> FALSE]

\* lines 195-211: the image's volumes added under their paths as declared, then initialized
createVolumesGot(w, c, got, fault) ==
    IF got.err # "nil" THEN {Fail(w, got.err)}
    ELSE rangeInitialize(w,
                         [k \in DOMAIN got.volumes \cup c.Config.Volumes |->
                             IF k \in DOMAIN got.volumes THEN got.volumes[k]
                             ELSE ManagedVolume(k)],
                         fault)

createVolumes(w, c, fault) ==
    IF w.err # "nil" THEN {w}
    ELSE createVolumesGot(w, c,
                          GetVolumes([c EXCEPT !.Volumes = w.Volumes, !.VolumesRW = w.VolumesRW]),
                          fault)

\* prepareVolumesForContainer starting from empty maps on every call
prepareVolumesResetting(w, c, fault) ==
    UNION {createVolumes(w1, c, fault) :
              w1 \in applyVolumesFrom([w EXCEPT !.Volumes = EmptyMap, !.VolumesRW = EmptyMap],
                                      c, fault)}

prepareVolumesForContainer(w, c, fault) ==
    UNION {createVolumes(w1, c, fault) :
              w1 \in IF DOMAIN w.Volumes = {}
                     THEN applyVolumesFrom([w EXCEPT !.Volumes = EmptyMap, !.VolumesRW = EmptyMap],
                                           c, fault)
                     ELSE {w}}

Mount(source, destination, writable, private, slave) ==
    [Source |-> source, Destination |-> destination, Writable |-> writable,
     Private |-> private, Slave |-> slave]

EtcResolvConf == <<"/", "e", "t", "c", "/", "r", "e", "s", "o", "l", "v", ".", "c", "o", "n", "f">>
EtcHostname == <<"/", "e", "t", "c", "/", "h", "o", "s", "t", "n", "a", "m", "e">>
EtcHosts == <<"/", "e", "t", "c", "/", "h", "o", "s", "t", "s">>

\* sortedVolumeMounts in descending order
sortedDescending(c) ==
    [i \in 1..Cardinality(DOMAIN c.Volumes) |->
        SortStrings(DOMAIN c.Volumes)[Cardinality(DOMAIN c.Volumes) + 1 - i]]

\* Container.sortedVolumeMounts
sortedVolumeMounts(c) == SortStrings(DOMAIN c.Volumes)

\* volumeMounts marking every mount writable
volumeMountsWritable(c, paths) ==
    [i \in 1..Len(paths) |-> Mount(c.Volumes[paths[i]], paths[i], TRUE, FALSE, FALSE)]

\* lines 78-84: one mount per sorted path
volumeMounts(c, paths) ==
    [i \in 1..Len(paths) |->
        Mount(c.Volumes[paths[i]], paths[i], c.VolumesRW[paths[i]], FALSE, FALSE)]

\* setupMountsForContainer appending the hosts file before the hostname file
setupMountsHostsFirst(c) ==
    <<Mount(c.ResolvConfPath, EtcResolvConf, TRUE, FALSE, TRUE)>>
    \o (IF c.HostsPath # <<>>
        THEN <<Mount(c.HostsPath, EtcHosts, TRUE, FALSE, TRUE)>> ELSE <<>>)
    \o (IF c.HostnamePath # <<>>
        THEN <<Mount(c.HostnamePath, EtcHostname, TRUE, TRUE, FALSE)>> ELSE <<>>)
    \o volumeMounts(c, sortedVolumeMounts(c))

\* the mount list setupMountsForContainer stores in container.command.Mounts
setupMountsForContainer(c) ==
    <<Mount(c.ResolvConfPath, EtcResolvConf, TRUE, FALSE, TRUE)>>
    \o (IF c.HostnamePath # <<>>
        THEN <<Mount(c.HostnamePath, EtcHostname, TRUE, TRUE, FALSE)>> ELSE <<>>)
    \o (IF c.HostsPath # <<>>
        THEN <<Mount(c.HostsPath, EtcHosts, TRUE, FALSE, TRUE)>> ELSE <<>>)
    \o volumeMounts(c, sortedVolumeMounts(c))

(***************************************************************************)
(* The state machine: calls on one container, in any order.                *)
(***************************************************************************)
\* hostConfig.VolumesFrom
VolumesFromChoices ==
    {<<>>, <<NameY, NameX>>, <<Colon(<<NameX, <<"z", "z">>>>), NameQ>>}

\* hostConfig.Binds
BindsChoices ==
    {<<>>, <<Colon(<<HostL, PathA, ModeRO>>)>>,
     <<Colon(<<HostH, PathA>>), Colon(<<HostF, PathAb, ModeRW>>)>>}

\* Config.Volumes, the paths the image declares
ConfigVolumesChoices == {{PathASlash}, {PathA, PathAB, PathAb}}

\* the host's nodes: the container root, bind sources and the other containers' volumes
HostNodes ==
    MapPut(MapPut(MapPut(MapPut(MapPut(MapPut(EmptyMap,
        basefs, DirNode(FALSE, "root", "0755")),
        HostH, DirNode(TRUE, "user", "0750")),
        HostF, FileNode("user", "0644")),
        HostL, LinkNode(HostH)),
        VolX, DirNode(FALSE, "root", "0700")),
        VolY, DirNode(TRUE, "root", "0700"))

\* what the image holds at the volume paths
Image == MapPut(HostNodes, basefs \o PathA, DirNode(TRUE, "user", "0750"))

\* the hostname and hosts files the daemon has written for the container
EtcFilesChoices ==
    [HostnamePath : {<<>>, <<"/", "h", "n">>}, HostsPath : {<<>>, <<"/", "h", "s">>}]

\* both files written, as the daemon does before it starts a container
EtcFilesWritten == [HostnamePath |-> <<"/", "h", "n">>, HostsPath |-> <<"/", "h", "s">>]

\* volumes handed to Volume.initialize directly
InitializeInputs ==
    {ManagedVolume(PathASlash), ManagedVolume(PathAb),
     [HostPath |-> HostH, VolPath |-> PathA, isReadWrite |-> TRUE, isBindMount |-> TRUE],
     [HostPath |-> HostN, VolPath |-> PathAb, isReadWrite |-> TRUE, isBindMount |-> TRUE],
     [HostPath |-> VolY, VolPath |-> PathA, isReadWrite |-> FALSE, isBindMount |-> FALSE],
     [HostPath |-> VolY, VolPath |-> PathA, isReadWrite |-> TRUE, isBindMount |-> FALSE],
     [HostPath |-> VolY, VolPath |-> PathAb, isReadWrite |-> TRUE, isBindMount |-> FALSE]}

NoCall == [op |-> "none", vol |-> ZeroVolume, wasEmpty |-> TRUE, err |-> "nil", calls |-> <<>>]

NoResult == [done |-> FALSE]

\* a container as the daemon hands it over: configured, with no volume resolved yet
NewContainer(vf, b, cv, etc) ==
    [Volumes |-> EmptyMap, VolumesRW |-> EmptyMap,
     hostConfig |-> [VolumesFrom |-> vf, Binds |-> b],
     Config |-> [Volumes |-> cv],
     ResolvConfPath |-> <<"/", "r", "c">>,
     HostnamePath |-> etc.HostnamePath, HostsPath |-> etc.HostsPath,
     Mounts |-> <<>>]

Init ==
    /\ container \in
         {NewContainer(vf, b, cv, etc) :
              vf \in VolumesFromChoices, b \in BindsChoices, cv \in ConfigVolumesChoices,
              etc \in {EtcFilesWritten}}
    /\ fs = Image
    /\ allocated = 0
    /\ last = NoCall
    /\ copies = EmptyMap
    /\ steps = 0
    /\ fields = <<>>
    /\ bindResult = NoResult
    /\ fromResult = NoResult

\* the state a call starts from
World ==
    [Volumes |-> container.Volumes, VolumesRW |-> container.VolumesRW, fs |-> fs,
     allocated |-> allocated, copies |-> copies, calls |-> <<>>, err |-> "nil"]

\* the state a call leaves
Returned(w, op, vol) ==
    /\ container' = [container EXCEPT !.Volumes = w.Volumes, !.VolumesRW = w.VolumesRW]
    /\ fs' = w.fs
    /\ allocated' = w.allocated
    /\ copies' = w.copies
    /\ last' = [op |-> op, vol |-> vol, wasEmpty |-> DOMAIN container.Volumes = {},
                err |-> w.err, calls |-> w.calls]
    /\ steps' = steps + 1
    /\ UNCHANGED <<fields, bindResult, fromResult>>

Prepare ==
    /\ steps < MaxSteps
    /\ \E w \in UNION {prepareVolumesForContainer(World, container, fault) : fault \in Faults} :
          Returned(w, "prepareVolumesForContainer", ZeroVolume)

Initialize ==
    /\ steps < MaxSteps
    /\ \E vol \in InitializeInputs :
          \E w \in {initialize(World, vol, fault) : fault \in Faults} :
             Returned(w, "initialize", vol)

SetupMounts ==
    /\ steps < MaxSteps
    /\ container' = [container EXCEPT !.Mounts = setupMountsForContainer(container)]
    /\ last' = [NoCall EXCEPT !.op = "setupMountsForContainer",
                              !.wasEmpty = DOMAIN container.Volumes = {}]
    /\ steps' = steps + 1
    /\ UNCHANGED <<fs, allocated, copies, fields, bindResult, fromResult>>

Next == Prepare \/ Initialize \/ SetupMounts

Spec == Init /\ [][Next]_vars

(***************************************************************************)
(* Mount assembly on its own: a container whose volume set is any set of   *)
(* recorded paths, with any read-write flags and any of the system files.  *)
(***************************************************************************)
\* the paths a volume set can record
MountPaths == {PathA, PathAB, PathAb, <<"/", "b">>}

\* the host path recorded for a path
RecordedHost(p) == IF p = PathA THEN HostH ELSE IF p = PathAb THEN HostF ELSE VolDir(Len(p))

InitMounts ==
    /\ \E S \in SUBSET MountPaths : \E rw \in [S -> BOOLEAN] : \E etc \in EtcFilesChoices :
          container = [NewContainer(<<>>, <<>>, {}, etc) EXCEPT
                          !.Volumes = [p \in S |-> RecordedHost(p)], !.VolumesRW = rw]
    /\ fs = Image
    /\ allocated = 0
    /\ last = NoCall
    /\ copies = EmptyMap
    /\ steps = 0
    /\ fields = <<>>
    /\ bindResult = NoResult
    /\ fromResult = NoResult

NextMounts == SetupMounts

SpecMounts == InitMounts /\ [][NextMounts]_vars

(***************************************************************************)
(* The parsers on their own: a spec string is its fields joined by colons. *)
(***************************************************************************)
\* what a field of a spec string can be
Tokens ==
    {<<>>, <<"h">>, PathA, ModeRO, ModeRW, <<"z", "z">>, NameX, NameY}

InitParse ==
    /\ fields \in UNION {[1..n -> Tokens] : n \in 1..MaxFields}
    /\ container = NewContainer(<<>>, <<>>, {}, [HostnamePath |-> <<>>, HostsPath |-> <<>>])
    /\ fs = HostNodes
    /\ allocated = 0
    /\ last = NoCall
    /\ copies = EmptyMap
    /\ steps = 0
    /\ bindResult = NoResult
    /\ fromResult = NoResult

\* the parser's return values, kept
Parsed(r) == [done |-> TRUE, vol |-> r.vol, err |-> r.err]

ParsedFrom(r) == [done |-> TRUE, volumes |-> r.volumes, err |-> r.err]

ParseBind ==
    /\ ~bindResult.done
    /\ bindResult' = Parsed(parseBindVolumeSpec(Colon(fields)))
    /\ UNCHANGED <<container, fs, allocated, last, copies, steps, fields, fromResult>>

ParseVolumesFrom ==
    /\ ~fromResult.done
    /\ fromResult' = ParsedFrom(parseVolumesFromSpec(Colon(fields)))
    /\ UNCHANGED <<container, fs, allocated, last, copies, steps, fields, bindResult>>

NextParse == ParseBind \/ ParseVolumesFrom

SpecParse == InitParse /\ [][NextParse]_vars

(***************************************************************************)
(* Properties.                                                             *)
(***************************************************************************)
SystemDestinations == {EtcResolvConf, EtcHostname, EtcHosts}

\* C1: after prepareVolumesForContainer on an empty volume set, every recorded path
\* carries the host path and the read-write flag of its highest-priority source:
\* the first volumes-from reference holding it, else a bind-mount, else a managed volume.
PriorityRespected_C1 ==
    (last.op = "prepareVolumesForContainer" /\ last.wasEmpty) =>
        \A p \in DOMAIN container.Volumes :
            LET vf == container.hostConfig.VolumesFrom
                b == container.hostConfig.Binds
                name(k) == SplitN(vf[k], ":", 2)[1]
                refs == {k \in 1..Len(vf) :
                            name(k) \in DOMAIN daemon /\ p \in DOMAIN daemon[name(k)].Volumes}
                first == CHOOSE k \in refs : \A j \in refs : k <= j
                binds == {i \in 1..Len(b) : parseBindVolumeSpec(b[i]).err = "nil"
                                            /\ Clean(parseBindVolumeSpec(b[i]).vol.VolPath) = p}
            IN  IF refs # {}
                THEN /\ container.Volumes[p] = Resolve(fs, daemon[name(first)].Volumes[p])
                     /\ Len(SplitN(vf[first], ":", 2)) = 1 =>
                            container.VolumesRW[p] = daemon[name(first)].VolumesRW[p]
                     /\ Len(SplitN(vf[first], ":", 2)) = 2 /\ SplitN(vf[first], ":", 2)[2] = ModeRO =>
                            ~container.VolumesRW[p]
                     /\ Len(SplitN(vf[first], ":", 2)) = 2 /\ SplitN(vf[first], ":", 2)[2] = ModeRW =>
                            container.VolumesRW[p]
                ELSE IF binds # {}
                THEN \E i \in binds :
                        /\ container.Volumes[p] = Resolve(fs, parseBindVolumeSpec(b[i]).vol.HostPath)
                        /\ container.VolumesRW[p] = parseBindVolumeSpec(b[i]).vol.isReadWrite
                ELSE /\ container.Volumes[p] \in {VolDir(n) : n \in 1..allocated}
                     /\ container.VolumesRW[p]

\* C2: initialize for a path that, cleaned, is already in the volume set returns no
\* error and changes neither map, nor the filesystem, nor the driver, and copies nothing.
SkipIfPresent_C2 ==
    [][(/\ last'.op = "initialize"
        /\ steps' = steps + 1
        /\ Clean(last'.vol.VolPath) \in DOMAIN container.Volumes)
       => /\ last'.err = "nil"
          /\ container'.Volumes = container.Volumes
          /\ container'.VolumesRW = container.VolumesRW
          /\ fs' = fs
          /\ allocated' = allocated
          /\ copies' = copies
          /\ \A i \in 1..Len(last'.calls) : last'.calls[i].call \in {"initialize", "return"}]_vars

\* a skipped initialize whose Volume differs from the recorded one in host path and mode
SkippedDifferent_C2 ==
    /\ last.op = "initialize"
    /\ Len(last.calls) = 2
    /\ Clean(last.vol.VolPath) \in DOMAIN container.Volumes
    /\ last.vol.VolPath # Clean(last.vol.VolPath)
    /\ last.vol.HostPath # container.Volumes[Clean(last.vol.VolPath)]
    /\ last.vol.isReadWrite # container.VolumesRW[Clean(last.vol.VolPath)]

\* C3: over any sequence of calls the copy is invoked at most once per container path.
SeedOnce_C3 == \A p \in DOMAIN copies : copies[p] <= 1

\* a managed read-write volume initialized again after its path was seeded: no copy
SecondInitializeNoCopy_C3 ==
    /\ last.op = "initialize"
    /\ ~last.vol.isBindMount /\ last.vol.isReadWrite /\ last.vol.HostPath = <<>>
    /\ Clean(last.vol.VolPath) \in DOMAIN copies
    /\ copies[Clean(last.vol.VolPath)] = 1
    /\ CountCopies(last.calls) = 0
    /\ last.err = "nil"

\* C4: the user mounts of the mount list are in strictly ascending byte-wise order
\* of their destinations.
SortedMounts_C4 ==
    \A i, j \in 1..Len(container.Mounts) :
        (/\ i < j
         /\ container.Mounts[i].Destination \notin SystemDestinations
         /\ container.Mounts[j].Destination \notin SystemDestinations)
        => StrLess(container.Mounts[i].Destination, container.Mounts[j].Destination)

\* the mounts of /a, /a/b and /ab, in this order
MountsABOrder_C4 ==
    /\ Len(container.Mounts) >= 3
    /\ \E n \in 0..3 :
          /\ Len(container.Mounts) = n + 3
          /\ container.Mounts[n + 1].Destination = PathA
          /\ container.Mounts[n + 2].Destination = PathAB
          /\ container.Mounts[n + 3].Destination = PathAb

\* C5: setupMountsForContainer leaves the volume set alone and stores exactly one user
\* mount per recorded path, with the recorded host path and read-write flag.
MountsMirrorVolumes_C5 ==
    [][(last'.op = "setupMountsForContainer" /\ steps' = steps + 1)
       => /\ container'.Volumes = container.Volumes
          /\ container'.VolumesRW = container.VolumesRW
          /\ \A p \in DOMAIN container.Volumes :
                /\ Cardinality({i \in 1..Len(container'.Mounts) :
                                   container'.Mounts[i].Destination = p}) = 1
                /\ \A i \in 1..Len(container'.Mounts) :
                      container'.Mounts[i].Destination = p =>
                         /\ container'.Mounts[i].Source = container.Volumes[p]
                         /\ container'.Mounts[i].Writable = container.VolumesRW[p]
          /\ \A i \in 1..Len(container'.Mounts) :
                container'.Mounts[i].Destination \in SystemDestinations \cup DOMAIN container.Volumes]_vars

\* the bind-mount /l:/a:ro mounted read-only from its resolved host path
ReadOnlyBindMounted_C5 ==
    /\ last.op = "setupMountsForContainer"
    /\ container.hostConfig.Binds = <<Colon(<<HostL, PathA, ModeRO>>)>>
    /\ \E i \in 1..Len(container.Mounts) :
          /\ container.Mounts[i].Destination = PathA
          /\ container.Mounts[i].Source = HostH
          /\ ~container.Mounts[i].Writable

\* C6: the mount list starts with resolv.conf (writable, slave), then the hostname file
\* if configured (writable, private), then the hosts file if configured (writable,
\* slave); the user mounts follow and are neither private nor slave.
SystemMountsFirst_C6 ==
    Len(container.Mounts) > 0 =>
        LET M == container.Mounts
            hn == container.HostnamePath # <<>>
            hs == container.HostsPath # <<>>
            n == 1 + (IF hn THEN 1 ELSE 0) + (IF hs THEN 1 ELSE 0)
        IN  /\ Len(M) >= n
            /\ M[1] = [Source |-> container.ResolvConfPath, Destination |-> EtcResolvConf,
                       Writable |-> TRUE, Private |-> FALSE, Slave |-> TRUE]
            /\ hn => M[2] = [Source |-> container.HostnamePath, Destination |-> EtcHostname,
                             Writable |-> TRUE, Private |-> TRUE, Slave |-> FALSE]
            /\ hs => M[n] = [Source |-> container.HostsPath, Destination |-> EtcHosts,
                             Writable |-> TRUE, Private |-> FALSE, Slave |-> TRUE]
            /\ \A i \in (n + 1)..Len(M) :
                  /\ ~M[i].Private
                  /\ ~M[i].Slave
                  /\ M[i].Destination \notin SystemDestinations

\* all three system mounts, followed by a user mount
AllSystemMounts_C6 ==
    /\ container.HostnamePath # <<>>
    /\ container.HostsPath # <<>>
    /\ Len(container.Mounts) >= 4

\* C7: once an initialize fails, or a volumes-from container is not found,
\* prepareVolumesForContainer returns an error and initializes no further volume.
AbortOnFailure_C7 ==
    last.op = "prepareVolumesForContainer" =>
        \A i \in 1..Len(last.calls) :
            (\/ last.calls[i].call = "return" /\ last.calls[i].err # "nil"
             \/ last.calls[i].call = "parseVolumesFromSpec"
                /\ last.calls[i].err = "Container not found")
            => /\ last.err # "nil"
               /\ \A j \in (i + 1)..Len(last.calls) : last.calls[j].call # "initialize"

\* a prepare that initialized one volume and failed on the next, with more to come
FailedAfterFirst_C7 ==
    /\ last.op = "prepareVolumesForContainer"
    /\ last.err # "nil"
    /\ \E i, j \in 1..Len(last.calls) :
          /\ i < j
          /\ last.calls[i].call = "return" /\ last.calls[i].err = "nil"
          /\ last.calls[j].call = "return" /\ last.calls[j].err # "nil"
    /\ Cardinality({i \in 1..Len(last.calls) : last.calls[i].call = "initialize"}) = 2
    /\ Cardinality(container.Config.Volumes) = 3

\* C8: a volumes-from spec with mode ro or rw and a resolvable container parses, and
\* every inherited volume takes the mode; without a mode it keeps the source's flag.
InheritedMode_C8 ==
    (fromResult.done /\ fields[1] \in DOMAIN daemon) =>
        /\ (Len(fields) = 2 /\ fields[2] \in {ModeRO, ModeRW}) =>
              /\ fromResult.err = "nil"
              /\ DOMAIN fromResult.volumes = DOMAIN daemon[fields[1]].Volumes
              /\ \A k \in DOMAIN fromResult.volumes :
                    fromResult.volumes[k].isReadWrite = (fields[2] = ModeRW)
        /\ Len(fields) = 1 =>
              /\ fromResult.err = "nil"
              /\ DOMAIN fromResult.volumes = DOMAIN daemon[fields[1]].Volumes
              /\ \A k \in DOMAIN fromResult.volumes :
                    fromResult.volumes[k].isReadWrite = daemon[fields[1]].VolumesRW[k]

\* C9: a volumes-from spec whose mode token is neither ro nor rw fails to parse and
\* returns no volume.
InvalidModeRejected_C9 ==
    (fromResult.done /\ Len(fields) >= 2 /\ Colon(Tail(fields)) \notin {ModeRO, ModeRW}) =>
        /\ fromResult.err # "nil"
        /\ DOMAIN fromResult.volumes = {}

\* C10: parseBindVolumeSpec assigns host path, container path and mode of specs with
\* 2 or 3 fields and an absolute host path, and fails on 4 or more fields and on a
\* non-empty host path that is not absolute.
BindSpecParsed_C10 ==
    bindResult.done =>
        LET abs == fields[1] # <<>> /\ Head(fields[1]) = "/"
        IN  /\ (Len(fields) = 2 /\ abs) =>
                  /\ bindResult.err = "nil"
                  /\ bindResult.vol.HostPath = fields[1]
                  /\ bindResult.vol.VolPath = fields[2]
                  /\ bindResult.vol.isReadWrite
            /\ (Len(fields) = 3 /\ abs /\ fields[3] \in {ModeRO, ModeRW}) =>
                  /\ bindResult.err = "nil"
                  /\ bindResult.vol.HostPath = fields[1]
                  /\ bindResult.vol.VolPath = fields[2]
                  /\ bindResult.vol.isReadWrite = (fields[3] = ModeRW)
            /\ Len(fields) >= 4 => bindResult.err # "nil"
            /\ (Len(fields) \in {2, 3} /\ fields[1] # <<>> /\ ~abs) => bindResult.err # "nil"

\* a three-field spec with an absolute host path and mode ro, parsed read-only
BindReadOnlyParsed_C10 ==
    /\ bindResult.done
    /\ Len(fields) = 3
    /\ fields[1] = PathA
    /\ fields[3] = ModeRO
    /\ bindResult.err = "nil"
    /\ ~bindResult.vol.isReadWrite

\* C11: parseBindVolumeSpec fails on a 3-field spec whose mode is neither ro nor rw.
BindInvalidModeRejected_C11 ==
    (bindResult.done /\ Len(fields) = 3 /\ fields[3] \notin {ModeRO, ModeRW}) =>
        bindResult.err # "nil"

\* C12: parseBindVolumeSpec on a 1-field spec succeeds with the spec as container
\* path, no host path and readWrite true.
BindOneFieldManaged_C12 ==
    (bindResult.done /\ Len(fields) = 1 /\ fields[1] # <<>>) =>
        /\ bindResult.err = "nil"
        /\ bindResult.vol.VolPath = fields[1]
        /\ bindResult.vol.HostPath = <<>>
        /\ bindResult.vol.isReadWrite

\* C13 as stated: when initialize reaches the seeding step of a managed read-write
\* volume, the copy is invoked exactly when the backing storage is non-empty and the
\* mount-point is empty, from the backing storage into the mount-point.
SeedFromBacking_C13 ==
    [][(/\ last'.op = "initialize"
        /\ steps' = steps + 1
        /\ ~last'.vol.isBindMount /\ last'.vol.isReadWrite
        /\ Clean(last'.vol.VolPath) \notin DOMAIN container.Volumes
        /\ Clean(last'.vol.VolPath) \in DOMAIN container'.Volumes
        /\ last'.err \notin {"mkdir failed", "open failed"})
       => LET mount == JoinBase(Clean(last'.vol.VolPath))
              backing == container'.Volumes[Clean(last'.vol.VolPath)]
              mountNonEmpty == ReadDir(fs, mount).nonEmpty
              backingNonEmpty == last'.vol.HostPath # <<>> /\ ReadDir(fs, last'.vol.HostPath).nonEmpty
              copied == {i \in 1..Len(last'.calls) : last'.calls[i].call = "CopyWithTar"}
          IN  /\ (copied # {}) <=> (backingNonEmpty /\ ~mountNonEmpty)
              /\ \A i \in copied : last'.calls[i].src = backing /\ last'.calls[i].dst = mount]_vars

\* C13 amended: the copy is invoked exactly when the mount-point is non-empty and the
\* backing storage is empty, from the mount-point into the backing storage.
SeedFromMountPoint_C13 ==
    [][(/\ last'.op = "initialize"
        /\ steps' = steps + 1
        /\ ~last'.vol.isBindMount /\ last'.vol.isReadWrite
        /\ Clean(last'.vol.VolPath) \notin DOMAIN container.Volumes
        /\ Clean(last'.vol.VolPath) \in DOMAIN container'.Volumes
        /\ last'.err \notin {"mkdir failed", "open failed"})
       => LET mount == JoinBase(Clean(last'.vol.VolPath))
              backing == container'.Volumes[Clean(last'.vol.VolPath)]
              mountNonEmpty == ReadDir(fs, mount).nonEmpty
              backingNonEmpty == last'.vol.HostPath # <<>> /\ ReadDir(fs, last'.vol.HostPath).nonEmpty
              copied == {i \in 1..Len(last'.calls) : last'.calls[i].call = "CopyWithTar"}
          IN  /\ (copied # {}) <=> (mountNonEmpty /\ ~backingNonEmpty)
              /\ \A i \in copied : last'.calls[i].src = mount /\ last'.calls[i].dst = backing]_vars

\* the image's files at /a copied into the fresh directory of a managed volume
SeededFromImage_C13 ==
    /\ last.op = "initialize"
    /\ last.vol = ManagedVolume(PathASlash)
    /\ last.err = "nil"
    /\ PathA \in DOMAIN container.Volumes
    /\ \E i \in 1..Len(last.calls) :
          /\ last.calls[i].call = "CopyWithTar"
          /\ last.calls[i].src = basefs \o PathA
          /\ last.calls[i].dst = container.Volumes[PathA]
    /\ fs[container.Volumes[PathA]].files

\* C14 as stated: a successful initialize of a managed read-write volume that was not
\* in the set propagates ownership exactly once, copy or not, setting owner and mode of
\* the mount-point to those of the backing storage, whose own are left alone.
OwnershipOntoMountPoint_C14 ==
    [][(/\ last'.op = "initialize"
        /\ steps' = steps + 1
        /\ ~last'.vol.isBindMount /\ last'.vol.isReadWrite
        /\ Clean(last'.vol.VolPath) \notin DOMAIN container.Volumes
        /\ last'.err = "nil")
       => LET mount == JoinBase(Clean(last'.vol.VolPath))
              backing == container'.Volumes[Clean(last'.vol.VolPath)]
              chowns == {i \in 1..Len(last'.calls) : last'.calls[i].call = "Chown"}
              chmods == {i \in 1..Len(last'.calls) : last'.calls[i].call = "Chmod"}
          IN  /\ Cardinality(chowns) = 1 /\ Cardinality(chmods) = 1
              /\ \A i \in chowns \cup chmods : last'.calls[i].dst = mount
              /\ fs'[mount].owner = fs'[backing].owner
              /\ fs'[mount].mode = fs'[backing].mode
              /\ backing \in DOMAIN fs =>
                    fs'[backing].owner = fs[backing].owner /\ fs'[backing].mode = fs[backing].mode]_vars

\* C14 amended: ownership is propagated exactly once, copy or not, setting owner and
\* mode of the backing storage to those of the mount-point, whose own are left alone.
OwnershipOntoBacking_C14 ==
    [][(/\ last'.op = "initialize"
        /\ steps' = steps + 1
        /\ ~last'.vol.isBindMount /\ last'.vol.isReadWrite
        /\ Clean(last'.vol.VolPath) \notin DOMAIN container.Volumes
        /\ last'.err = "nil")
       => LET mount == JoinBase(Clean(last'.vol.VolPath))
              backing == container'.Volumes[Clean(last'.vol.VolPath)]
              chowns == {i \in 1..Len(last'.calls) : last'.calls[i].call = "Chown"}
              chmods == {i \in 1..Len(last'.calls) : last'.calls[i].call = "Chmod"}
          IN  /\ Cardinality(chowns) = 1 /\ Cardinality(chmods) = 1
              /\ \A i \in chowns \cup chmods : last'.calls[i].dst = backing
              /\ fs'[backing].owner = fs'[mount].owner
              /\ fs'[backing].mode = fs'[mount].mode
              /\ mount \in DOMAIN fs =>
                    fs'[mount].owner = fs[mount].owner /\ fs'[mount].mode = fs[mount].mode]_vars

\* a managed volume at /ab: nothing to copy, and its fresh directory takes the owner
\* and mode of the mount-point just created
OwnershipWithoutCopy_C14 ==
    /\ last.op = "initialize"
    /\ last.vol = ManagedVolume(PathAb)
    /\ last.err = "nil"
    /\ CountCopies(last.calls) = 0
    /\ \E i \in 1..Len(last.calls) : last.calls[i].call = "Chmod"
    /\ PathAb \in DOMAIN container.Volumes
    /\ fs[container.Volumes[PathAb]].mode = "0755"
    /\ fs[basefs \o PathAb].mode = "0755"

\* C15: after a successful prepareVolumesForContainer every recorded path has its
\* mount-point in place and, for a managed read-write volume, seeding and ownership
\* done, also when an earlier call on the container failed part-way.
PreparedComplete_C15 ==
    (last.op = "prepareVolumesForContainer" /\ last.err = "nil") =>
        \A p \in DOMAIN container.Volumes :
            /\ JoinBase(p) \in DOMAIN fs
            /\ (container.VolumesRW[p] /\ container.Volumes[p] \in {VolDir(n) : n \in 1..allocated}) =>
                  /\ fs[container.Volumes[p]].owner = fs[JoinBase(p)].owner
                  /\ fs[container.Volumes[p]].mode = fs[JoinBase(p)].mode
                  /\ ReadDir(fs, container.Volumes[p]).nonEmpty = ReadDir(fs, JoinBase(p)).nonEmpty

\* C16: createVolumes never records a managed volume for a path that a bind-mount of
\* the container supplies, however the image spells the path and in whatever order
\* the volumes are initialized.
BindNotReplaced_C16 ==
    [][(last'.op = "prepareVolumesForContainer" /\ steps' = steps + 1)
       => \A p \in DOMAIN container'.Volumes \ DOMAIN container.Volumes :
             (\E i \in 1..Len(container.hostConfig.Binds) :
                 /\ parseBindVolumeSpec(container.hostConfig.Binds[i]).err = "nil"
                 /\ Clean(parseBindVolumeSpec(container.hostConfig.Binds[i]).vol.VolPath) = p)
             => container'.Volumes[p] \notin {VolDir(n) : n \in 1..allocated'}]_vars

\* C17: a recorded path keeps its host path and its read-write flag, and is never
\* removed, whatever is called on the container afterwards.
RecordedForGood_C17 ==
    [][\A p \in DOMAIN container.Volumes :
          /\ p \in DOMAIN container'.Volumes
          /\ container'.Volumes[p] = container.Volumes[p]
          /\ container'.VolumesRW[p] = container.VolumesRW[p]]_vars

\* a managed volume recorded at /a, kept by a later successful prepare of a container
\* that binds a host directory at /a
ManagedKeptOverBind_C17 ==
    /\ last.op = "prepareVolumesForContainer"
    /\ ~last.wasEmpty
    /\ last.err = "nil"
    /\ container.hostConfig.Binds # <<>>
    /\ Clean(parseBindVolumeSpec(container.hostConfig.Binds[1]).vol.VolPath) = PathA
    /\ container.Config.Volumes # {PathASlash}
    /\ PathA \in DOMAIN container.Volumes
    /\ container.Volumes[PathA] = VolDir(1)
    /\ container.VolumesRW[PathA]

\* C18: the mount of a path comes before the mount of every path nested below it.
AncestorFirst_C18 ==
    \A i, j \in 1..Len(container.Mounts) :
        IsAncestor(container.Mounts[i].Destination, container.Mounts[j].Destination) => i < j

\* /a mounted before /a/b, with no other volume
NestedAfterParent_C18 ==
    /\ DOMAIN container.Volumes = {PathA, PathAB}
    /\ \E i \in 1..Len(container.Mounts) :
          /\ i + 1 = Len(container.Mounts)
          /\ container.Mounts[i].Destination = PathA
          /\ container.Mounts[i + 1].Destination = PathAB

\* C19: initialize calls the storage allocator exactly when the cleaned path is not in
\* the set, the volume is no bind-mount and carries no host path; at most once, before
\* symlink resolution; and the host path then recorded is the allocator's.
AllocatedWhenNeeded_C19 ==
    [][(last'.op = "initialize" /\ steps' = steps + 1)
       => LET creates == {i \in 1..Len(last'.calls) : last'.calls[i].call = "Create"}
              evals == {i \in 1..Len(last'.calls) : last'.calls[i].call = "EvalSymlinks"}
              p == Clean(last'.vol.VolPath)
          IN  /\ (creates # {}) <=> (/\ p \notin DOMAIN container.Volumes
                                     /\ ~last'.vol.isBindMount
                                     /\ last'.vol.HostPath = <<>>)
              /\ Cardinality(creates) <= 1
              /\ \A i \in creates : \A j \in evals : i < j
              /\ allocated' = allocated + (IF creates # {} /\ allocated < MaxAlloc THEN 1 ELSE 0)
              /\ (creates # {} /\ p \in DOMAIN container'.Volumes) =>
                    \E i \in 1..Len(last'.calls) :
                       /\ last'.calls[i].call = "Get"
                       /\ container'.Volumes[p] = last'.calls[i].dst]_vars

\* the second directory the allocator gave out, recorded for a managed volume at /ab
SecondAllocationRecorded_C19 ==
    /\ last.op = "initialize"
    /\ last.vol = ManagedVolume(PathAb)
    /\ allocated = 2
    /\ PathAb \in DOMAIN container.Volumes
    /\ container.Volumes[PathAb] = VolDir(2)
    /\ \E i \in 1..Len(last.calls) :
          /\ last.calls[i].call = "Create" /\ last.calls[i].dst = VolDir(2)
          /\ last.calls[i + 1].call = "Get" /\ last.calls[i + 1].dst = VolDir(2)
          /\ last.calls[i + 2].call = "EvalSymlinks" /\ last.calls[i + 2].src = VolDir(2)

\* C20: initialize of a bind-mount or of a read-only volume neither copies nor
\* propagates ownership: contents, owner and mode of the host path and of the
\* mount-point stay as they were.
NoSeedingForBindOrReadOnly_C20 ==
    [][(/\ last'.op = "initialize"
        /\ steps' = steps + 1
        /\ last'.vol.isBindMount \/ ~last'.vol.isReadWrite)
       => /\ \A i \in 1..Len(last'.calls) :
                last'.calls[i].call \notin {"CopyWithTar", "Chown", "Chmod"}
          /\ copies' = copies
          /\ \A q \in {Resolve(fs, last'.vol.HostPath), JoinBase(Clean(last'.vol.VolPath))} :
                q \in DOMAIN fs => q \in DOMAIN fs' /\ fs'[q] = fs[q]]_vars

\* a read-only volume of another container recorded at /a: its directory keeps owner
\* and mode, which differ from the mount-point's
ReadOnlyLeftAlone_C20 ==
    /\ last.op = "initialize"
    /\ ~last.vol.isBindMount /\ ~last.vol.isReadWrite
    /\ last.err = "nil"
    /\ Len(last.calls) > 2
    /\ PathA \in DOMAIN container.Volumes
    /\ container.Volumes[PathA] = VolY
    /\ ~container.VolumesRW[PathA]
    /\ fs[VolY].owner # fs[basefs \o PathA].owner
    /\ fs[VolY].mode # fs[basefs \o PathA].mode

====
